---- MODULE Spec2Model ----
(***************************************************************************)
(* Model of the two stateful pieces of PercyClient:                        *)
(*   - waitForBuild: the recursive poll(last, t) loop that waits for a     *)
(*     build to leave the pending / processing states;                     *)
(*   - uploadResources: the generator of uploads handed to pool(.., 2).    *)
(* Time is counted in whole clock units (one unit = one second of the      *)
(* spec's examples).                                                       *)
(***************************************************************************)
EXTENDS Integers, Sequences, FiniteSets, TLC

\* ------------------------------------------------------------------ bounds
\* The clock stops advancing at MaxTime.
MaxTime == 4
\* No more than MaxFetches calls of fetchData are followed.
MaxFetches == 3
\* The producer of a pool run yields at most MaxTasks tasks.
MaxTasks == 3
\* A generic pool run has a concurrency limit of at most MaxConcurrency.
MaxConcurrency == 3

\* ---------------------------------------------------------------- snapshots
\* What `fetchData()` can resolve with.  An object snapshot keeps its
\* attributes in insertion order, as a JavaScript object does.
NULL == [kind |-> "null", attrs |-> << >>]
UNDEFINED == [kind |-> "undefined", attrs |-> << >>]
\* An object that has no `attributes` member.
Bare == [kind |-> "bare", attrs |-> << >>]
Obj(a) == [kind |-> "object", attrs |-> a]
\* The value of `result` while the promise is not resolved.
NoResult == [kind |-> "none", attrs |-> << >>]

SnapNoState == Obj(<< >>)
SnapEmptyState == Obj(<< <<"state", "">> >>)
SnapPending == Obj(<< <<"state", "pending">> >>)
SnapProcessing == Obj(<< <<"state", "processing">>, <<"total", "1">> >>)
SnapProcessingReordered == Obj(<< <<"total", "1">>, <<"state", "processing">> >>)
SnapFinished == Obj(<< <<"state", "finished">> >>)

Snapshots ==
  {NULL, UNDEFINED, Bare, SnapNoState, SnapEmptyState, SnapPending, SnapProcessing,
   SnapProcessingReordered, SnapFinished}

\* waitForBuild's `timeout` and `interval` options, in clock units.
Timeouts == {1, 2, 5}
Intervals == {1, 2}

VARIABLES
  now,          \* Date.now()
  startedAt,    \* Date.now() when waitForBuild was called
  timeout,      \* option `timeout`
  interval,     \* option `interval`
  hasProgress,  \* whether an onProgress callback was passed
  pc,           \* "idle" before waitForBuild is called, "threw" when it threw,
                \* else the state of its promise: "pending", "resolved", "rejected"
  inflight,     \* calls of fetchData() that have not settled yet
  timers,       \* armed setTimeout(poll, ...) timers
  armedAt,      \* when the armed timer was armed
  last,         \* argument `last` of the running / scheduled poll
  t,            \* argument `t` of the running / scheduled poll
  result,       \* what the promise resolved with ({ data })
  error,        \* what the promise rejected with
  calls,        \* number of fetchData() calls made so far
  fetches,      \* the fetchData() calls that settled, in order
  progress      \* the onProgress calls made, in order

pollVars ==
  <<now, startedAt, timeout, interval, hasProgress, pc, inflight, timers, armedAt,
    last, t, result, error, calls, fetches, progress>>

VARIABLES
  caller,       \* who started the pool: "none", "uploadResources", "runPool"
  poolState,    \* "idle", "running", "resolved", "rejected"
  concurrency,  \* the pool's concurrency limit
  total,        \* number of tasks the producer yields
  pulled,       \* number of tasks pulled from the producer so far
  active,       \* indices of the tasks pulled and not yet settled
  ret,          \* the pool's result list, by task index
  poolResult,   \* the list the pool resolved with
  poolError,    \* the error the pool call rejected with
  produced,     \* what each task settled with
  completed     \* indices of the settled tasks, in order of completion

poolVars ==
  <<caller, poolState, concurrency, total, pulled, active, ret, poolResult, poolError,
    produced, completed>>

vars == <<pollVars, poolVars>>

\* ------------------------------------------------------------ pure helpers
RECURSIVE Members(_)
Members(a) ==
  IF a = << >> THEN << >>
  ELSE IF Len(a) = 1 THEN <<a[1][1], ":", a[1][2]>>
  ELSE <<a[1][1], ":", a[1][2], ",">> \o Members(Tail(a))

\* JSON.stringify(data), as a sequence of tokens; the empty sequence stands
\* for the non-string `undefined` that JSON.stringify(undefined) returns.
JSONstringify(d) ==
  CASE d.kind = "null" -> <<"null">>
    [] d.kind = "undefined" -> << >>
    [] d.kind = "bare" -> <<"{", "}">>
    [] OTHER -> <<"{", "attributes", ":", "{">> \o Members(d.attrs) \o <<"}", "}">>

\* JavaScript truthiness of a snapshot (`last || ...`, `!last`).
Truthy(d) == d.kind \in {"object", "bare"}

\* `data?.attributes.state` throws a TypeError when data is an object
\* without `attributes`.
ThrowsTypeError(d) == d.kind = "bare"

NoState == "undefined"

\* `data?.attributes.state`
GetState(d) ==
  IF d.kind = "object" /\ \E i \in DOMAIN d.attrs : d.attrs[i][1] = "state"
  THEN LET i == CHOOSE j \in DOMAIN d.attrs : d.attrs[j][1] = "state"
       IN d.attrs[i][2]
  ELSE NoState

\* Variant: 'processing' is not taken for a pending state.
PendingWithoutProcessing(state) == state \in {NoState, ""} \/ state = "pending"

\* `!state || state === 'pending' || state === 'processing'`
Pending(state) ==
  state \in {NoState, ""} \/ state = "pending" \/ state = "processing"

\* `JSON.stringify(data) !== JSON.stringify(last)`
Updated(data, lst) == JSONstringify(data) # JSONstringify(lst)

\* Variant: t is never reset, so the timeout measures the whole wait.
NewTNeverReset(updated, time, tOld) == tOld

\* `if (updated) t = Date.now()`
NewT(updated, time, tOld) == IF updated THEN time ELSE tOld

\* Variant: the timeout needs strictly more than `timeout` without update.
TimedOutStrict(updated, time, tOld, limit) == ~updated /\ time - tOld > limit

\* `else if (Date.now() - t >= timeout) throw`
TimedOut(updated, time, tOld, limit) == ~updated /\ time - tOld >= limit

\* Variant: progress is called only from the second update on.
CallOnUpdateAfterFirst(lst, pending, updated) == Truthy(lst) /\ updated

\* `if ((last || pending) && updated) onProgress?.(data)`
CallOnUpdate(lst, pending, updated) == (Truthy(lst) \/ pending) /\ updated

\* Variant: no call of progress is added in the finished branch.
CallAtLeastOnceNever(lst, pending) == FALSE

\* `if (!last) onProgress?.(data)` in the finished branch
CallAtLeastOnce(lst, pending) == ~pending /\ ~Truthy(lst)

\* Variant: the next tick is scheduled whether or not the tick threw.
RearmAlways(pending, thrown) == pending

\* `if (pending) return setTimeout(poll, interval, data, t)`; not reached
\* when the tick threw.
Rearm(pending, thrown) == pending /\ ~thrown

\* ------------------------------------------------------------ pool helpers
\* Variant: uploadResources starts every upload at once.
UploadAllAtOnce == MaxTasks

\* uploadResources runs its uploads "two at a time": pool(..., this, 2).
UploadConcurrency == 2

\* What a task can resolve with.
Values == {"a", "b"}

NoError == [kind |-> "none", index |-> 0]
TaskError(i) == [kind |-> "task", index |-> i]
BuildIdError == [kind |-> "Missing build ID", index |-> 0]

Min(a, b) == IF a < b THEN a ELSE b

\* How many more tasks the pool may start: it keeps up to `limit` in flight.
Capacity(limit, inFlight) == IF limit > inFlight THEN limit - inFlight ELSE 0

\* Variant: the result is pushed, so the list is in order of completion.
RecordPush(list, i, v) ==
  LET k == CHOOSE j \in DOMAIN list :
             list[j] = "none" /\ \A h \in 1..(j - 1) : list[h] # "none"
  IN [list EXCEPT ![k] = v]

\* The result list with task i's result recorded at its own index.
Record(list, i, v) == [list EXCEPT ![i] = v]

\* Variant: a later failure replaces the error of the first one.
SettleOnFailureLastWins(st, err, i) == <<"rejected", TaskError(i)>>

\* The pool's outcome after task i failed: the first failure rejects the
\* call, later ones are dropped.
SettleOnFailure(st, err, i) ==
  IF st = "running" THEN <<"rejected", TaskError(i)>> ELSE <<st, err>>

\* ------------------------------------------------------------------- Init
\* Neither waitForBuild nor uploadResources has been called.
InitPoll ==
  /\ now = 0
  /\ startedAt = 0
  /\ timeout = 0
  /\ interval = 0
  /\ hasProgress = FALSE
  /\ pc = "idle"
  /\ inflight = 0
  /\ timers = 0
  /\ armedAt = 0
  /\ last = NULL
  /\ t = 0
  /\ result = NoResult
  /\ error = "none"
  /\ calls = 0
  /\ fetches = << >>
  /\ progress = << >>

InitPool ==
  /\ caller = "none"
  /\ poolState = "idle"
  /\ concurrency = 0
  /\ total = 0
  /\ pulled = 0
  /\ active = {}
  /\ ret = << >>
  /\ poolResult = << >>
  /\ poolError = NoError
  /\ produced = << >>
  /\ completed = << >>

Init == InitPoll /\ InitPool

\* ------------------------------------------------------- waitForBuild
\* The clock advances.
Advance ==
  /\ now < MaxTime
  /\ now' = now + 1
  /\ UNCHANGED <<startedAt, timeout, interval, hasProgress, pc, inflight, timers,
                 armedAt, last, t, result, error, calls, fetches, progress>>
  /\ UNCHANGED poolVars

\* The argument checks at the head of waitForBuild; "ok" when none throws.
\* `project` is "none", "invalid" or "valid" (validateProjectPath).
ValidateArgs(build, project, commit) ==
  IF commit /\ project = "none" THEN "Missing project path for commit"
  ELSE IF ~commit /\ ~build THEN "Missing build ID or commit SHA"
  ELSE IF project = "invalid" THEN "Invalid project path"
  ELSE "ok"

\* waitForBuild({ build, project, commit, timeout, interval }, onProgress):
\* throws on bad arguments, else creates the promise, whose executor runs
\* poll(null, Date.now()) up to its `await fetchData()`.
WaitForBuild(build, project, commit, tmo, ivl, cb) ==
  /\ pc = "idle"
  /\ LET check == ValidateArgs(build, project, commit)
     IN IF check # "ok"
          THEN /\ pc' = "threw"
               /\ error' = check
               /\ UNCHANGED <<timeout, interval, hasProgress, inflight, t, calls>>
          ELSE /\ pc' = "pending"
               /\ timeout' = tmo
               /\ interval' = ivl
               /\ hasProgress' = cb
               /\ inflight' = inflight + 1
               /\ calls' = calls + 1
               /\ t' = now
               /\ UNCHANGED error
  /\ last' = NULL
  /\ startedAt' = now
  /\ UNCHANGED <<now, timers, armedAt, result, fetches, progress>>
  /\ UNCHANGED poolVars

\* `await fetchData()` resolves with `data`; the rest of poll's body runs.
FetchResolve(data) ==
  /\ inflight > 0
  /\ LET n == Len(fetches) + 1
         typeError == ThrowsTypeError(data)
         state == GetState(data)
         pending == Pending(state)
         updated == Updated(data, last)
         timedOut == ~typeError /\ TimedOut(updated, now, t, timeout)
         thrown == typeError \/ timedOut
         onUpdate == ~thrown /\ hasProgress /\ CallOnUpdate(last, pending, updated)
         atLeastOnce == ~thrown /\ hasProgress /\ CallAtLeastOnce(last, pending)
         call == [n |-> n, data |-> data]
     IN /\ inflight' = inflight - 1
        /\ fetches' = Append(fetches, [data |-> data, at |-> now, ok |-> TRUE])
        /\ progress' = progress \o (IF onUpdate THEN <<call>> ELSE << >>)
                                \o (IF atLeastOnce THEN <<call>> ELSE << >>)
        /\ IF Rearm(pending, thrown)
             THEN /\ timers' = timers + 1
                  /\ armedAt' = now
                  /\ last' = data
                  /\ t' = NewT(updated, now, t)
             ELSE UNCHANGED <<timers, armedAt, last, t>>
        /\ IF thrown
             THEN /\ pc' = IF pc = "pending" THEN "rejected" ELSE pc
                  /\ error' = IF pc = "pending"
                                THEN (IF typeError THEN "TypeError" ELSE "Timeout")
                                ELSE error
                  /\ UNCHANGED result
             ELSE IF ~pending
               THEN /\ pc' = IF pc = "pending" THEN "resolved" ELSE pc
                    /\ result' = IF pc = "pending" THEN data ELSE result
                    /\ UNCHANGED error
               ELSE UNCHANGED <<pc, result, error>>
  /\ UNCHANGED <<now, startedAt, timeout, interval, hasProgress, calls>>
  /\ UNCHANGED poolVars

\* Variant: a failed fetch is retried after the interval.
FetchRejectRetried ==
  /\ inflight > 0
  /\ inflight' = inflight - 1
  /\ fetches' = Append(fetches, [data |-> UNDEFINED, at |-> now, ok |-> FALSE])
  /\ timers' = timers + 1
  /\ armedAt' = now
  /\ UNCHANGED <<now, startedAt, timeout, interval, hasProgress, pc, last, t,
                 result, error, calls, progress>>
  /\ UNCHANGED poolVars

\* `await fetchData()` rejects: the catch block rejects the promise.
FetchReject ==
  /\ inflight > 0
  /\ inflight' = inflight - 1
  /\ fetches' = Append(fetches, [data |-> UNDEFINED, at |-> now, ok |-> FALSE])
  /\ pc' = IF pc = "pending" THEN "rejected" ELSE pc
  /\ error' = IF pc = "pending" THEN "FetchFailure" ELSE error
  /\ UNCHANGED <<now, startedAt, timeout, interval, hasProgress, timers, armedAt,
                 last, t, result, calls, progress>>
  /\ UNCHANGED poolVars

\* The timer armed by setTimeout(poll, interval, data, t) fires: poll runs
\* up to its `await fetchData()`.
TimerFire ==
  /\ timers > 0
  /\ now >= armedAt + interval
  /\ calls < MaxFetches
  /\ timers' = timers - 1
  /\ inflight' = inflight + 1
  /\ calls' = calls + 1
  /\ UNCHANGED <<now, startedAt, timeout, interval, hasProgress, pc, armedAt, last,
                 t, result, error, fetches, progress>>
  /\ UNCHANGED poolVars

Next ==
  \/ Advance
  \/ \E build \in BOOLEAN, project \in {"none", "invalid", "valid"},
        commit \in BOOLEAN, tmo \in Timeouts, ivl \in Intervals, cb \in BOOLEAN :
       WaitForBuild(build, project, commit, tmo, ivl, cb)
  \/ \E data \in Snapshots : FetchResolve(data)
  \/ FetchReject
  \/ TimerFire

Spec == Init /\ [][Next]_vars

\* ------------------------------------------------------------- the pool
\* pool(generator, context, limit) starts: the first tasks are pulled from
\* the producer, `limit` at most; a producer with no task resolves with [].
PoolStart(n, limit, who) ==
  LET k == Min(n, Capacity(limit, 0))
  IN /\ caller' = who
     /\ concurrency' = limit
     /\ total' = n
     /\ pulled' = k
     /\ active' = 1..k
     /\ ret' = [i \in 1..k |-> "none"]
     /\ produced' = [i \in 1..k |-> "none"]
     /\ poolState' = IF n = 0 THEN "resolved" ELSE "running"
     /\ UNCHANGED <<poolResult, poolError, completed>>

\* uploadResources(buildId, resources): validateBuildId, then the pool over
\* one uploadResource call per resource, two at a time.
UploadResources(validId, n) ==
  /\ poolState = "idle"
  /\ IF validId
       THEN PoolStart(n, UploadConcurrency, "uploadResources")
       ELSE /\ caller' = "uploadResources"
            /\ poolState' = "rejected"
            /\ poolError' = BuildIdError
            /\ UNCHANGED <<concurrency, total, pulled, active, ret, poolResult,
                           produced, completed>>
  /\ UNCHANGED pollVars

\* runPool(taskProducer, context, concurrencyLimit) with any limit >= 1.
RunPool(n, limit) ==
  /\ poolState = "idle"
  /\ PoolStart(n, limit, "runPool")
  /\ UNCHANGED pollVars

\* Task i resolves with v: its result is recorded, the next task is pulled
\* and the pool resolves when nothing is left.
TaskResolve(i, v) ==
  /\ i \in active
  /\ completed' = Append(completed, i)
  /\ IF poolState = "running"
       THEN LET more == Min(total - pulled, Capacity(concurrency, Cardinality(active) - 1))
                fresh == [j \in 1..more |-> "none"]
            IN /\ pulled' = pulled + more
               /\ active' = (active \ {i}) \cup (pulled + 1 .. pulled + more)
               /\ ret' = Record(ret, i, v) \o fresh
               /\ produced' = [produced EXCEPT ![i] = v] \o fresh
               /\ IF active' = {}
                    THEN /\ poolState' = "resolved"
                         /\ poolResult' = ret'
                    ELSE UNCHANGED <<poolState, poolResult>>
       ELSE /\ active' = active \ {i}
            /\ produced' = [produced EXCEPT ![i] = v]
            /\ UNCHANGED <<pulled, ret, poolState, poolResult>>
  /\ UNCHANGED <<caller, concurrency, total, poolError>>
  /\ UNCHANGED pollVars

\* Task i fails: the pool call rejects with its error if it is the first;
\* the tasks still in flight run on, no further task is pulled.
TaskReject(i) ==
  /\ i \in active
  /\ active' = active \ {i}
  /\ produced' = [produced EXCEPT ![i] = "failed"]
  /\ completed' = Append(completed, i)
  /\ poolState' = SettleOnFailure(poolState, poolError, i)[1]
  /\ poolError' = SettleOnFailure(poolState, poolError, i)[2]
  /\ UNCHANGED <<caller, concurrency, total, pulled, ret, poolResult>>
  /\ UNCHANGED pollVars

PoolNext ==
  \/ \E validId \in BOOLEAN, n \in 0..MaxTasks : UploadResources(validId, n)
  \/ \E n \in 0..MaxTasks, limit \in 1..MaxConcurrency : RunPool(n, limit)
  \/ \E i \in 1..MaxTasks, v \in Values : TaskResolve(i, v)
  \/ \E i \in 1..MaxTasks : TaskReject(i)

PoolSpec == Init /\ [][PoolNext]_vars

\* ================================================================ claims
\* Helpers of the claims, stated on the observable history only.

\* A snapshot is terminal when it has a state that is set and is neither
\* "pending" nor "processing".
IsTerminal(d) ==
  /\ d.kind = "object"
  /\ \E i \in DOMAIN d.attrs :
       d.attrs[i][1] = "state" /\ d.attrs[i][2] \notin {"", "pending", "processing"}

\* A snapshot is pending when it has no state, or a pending marker as state.
IsPendingSnapshot(d) ==
  \/ d.kind \in {"null", "undefined"}
  \/ /\ d.kind = "object"
     /\ \A i \in DOMAIN d.attrs :
          d.attrs[i][1] = "state" => d.attrs[i][2] \in {"", "pending", "processing"}

\* A build object that is pending: it has no state, or a pending marker.
IsPendingBuild(d) == d.kind = "object" /\ IsPendingSnapshot(d)

\* Structural equality of two snapshots, whatever the order of their keys.
StructEq(a, b) ==
  /\ a.kind = b.kind
  /\ {a.attrs[i] : i \in DOMAIN a.attrs} = {b.attrs[i] : i \in DOMAIN b.attrs}

NFetched == Len(fetches)
Settled == pc \in {"resolved", "rejected"}

\* The snapshot the k-th fetch is compared with: the one before it, and
\* poll's initial `null` for the first.
Previous(k) == IF k = 1 THEN NULL ELSE fetches[k - 1].data

\* When the last change before the k-th fetch was observed: the time of the
\* latest earlier fetch that differs from its predecessor, else the start.
LastChangeBefore(k) ==
  LET changes == {j \in 1..(k - 1) : ~StructEq(fetches[j].data, Previous(j))}
  IN IF changes = {} THEN startedAt
     ELSE fetches[CHOOSE j \in changes : \A h \in changes : h <= j].at

\* The fetch numbers of the onProgress calls, in order.
ProgressFetches == [i \in 1..Len(progress) |-> progress[i].n]

C2_StaleRunTimesOut ==
  LET k == NFetched
  IN (/\ k >= 2
      /\ \A i \in 1..k : fetches[i].ok
      /\ \E j \in 1..(k - 1) :
           /\ \A i \in j..k : fetches[i].data = fetches[k].data
           /\ fetches[k].at - fetches[j].at >= timeout)
     => /\ pc = "rejected"
        /\ error = "Timeout"
        /\ timers = 0
        /\ inflight = 0
        /\ calls = k

C2_Witness ==
  /\ error = "Timeout"
  /\ NFetched = 3
  /\ fetches[1].data = SnapPending
  /\ fetches[3].at - fetches[2].at = timeout

\* C3: the wait rejects with the timeout error only on a tick whose snapshot
\* equals the previous one, and only when at least `timeout` has passed
\* since the last observed change.
C3_TimeoutMeasuresStaleness ==
  error = "Timeout" =>
    /\ pc = "rejected"
    /\ NFetched >= 1
    /\ StructEq(fetches[NFetched].data, Previous(NFetched))
    /\ fetches[NFetched].at - LastChangeBefore(NFetched) >= timeout

C3_Witness ==
  /\ error = "Timeout"
  /\ NFetched = 3
  /\ fetches[2].data # fetches[1].data
  /\ fetches[3].at - startedAt > timeout

\* The fetch sequence [pending, pending, done] at intervals of 1 with a
\* timeout of 5, an onProgress callback being passed.
C4_Scenario ==
  /\ interval = 1
  /\ timeout = 5
  /\ hasProgress
  /\ NFetched = 3
  /\ \A k \in 1..3 : fetches[k].ok
  /\ IsPendingBuild(fetches[1].data)
  /\ IsPendingBuild(fetches[2].data)
  /\ IsTerminal(fetches[3].data)
  /\ fetches[2].at = fetches[1].at + 1
  /\ fetches[3].at = fetches[2].at + 1

C5_FirstTerminalResolvesAtOnce ==
  (NFetched >= 1 /\ fetches[1].ok /\ IsTerminal(fetches[1].data)) =>
    /\ pc = "resolved"
    /\ result = fetches[1].data
    /\ NFetched = 1
    /\ calls = 1
    /\ timers = 0
    /\ inflight = 0
    /\ hasProgress => progress = <<[n |-> 1, data |-> fetches[1].data]>>
    /\ ~hasProgress => progress = << >>

C5_Witness ==
  /\ pc = "resolved"
  /\ NFetched = 1
  /\ hasProgress
  /\ Len(progress) = 1
  /\ now > fetches[1].at + interval

\* C6: a failed fetch is the last fetch of the wait: the wait has rejected
\* with that failure, nothing is scheduled or in flight, and it never
\* resolves.
C6_FetchFailureRejects ==
  \A k \in 1..NFetched :
    ~fetches[k].ok =>
      /\ k = NFetched
      /\ pc = "rejected"
      /\ error = "FetchFailure"
      /\ result = NoResult
      /\ calls = k
      /\ timers = 0
      /\ inflight = 0

C6_Witness ==
  /\ NFetched = 2
  /\ ~fetches[2].ok
  /\ now > fetches[2].at + interval

\* C10: once the wait has resolved or rejected no timer is armed, no fetch
\* is in flight, and no later step fetches, calls onProgress or changes the
\* outcome; and at any time at most one fetch is in flight, never together
\* with an armed timer.
C10_QuiescentOnceSettled ==
  /\ [](Settled => (timers = 0 /\ inflight = 0))
  /\ [](inflight + timers <= 1)
  /\ [][Settled => /\ calls' = calls
                   /\ fetches' = fetches
                   /\ progress' = progress
                   /\ pc' = pc
                   /\ result' = result
                   /\ error' = error]_vars

C10_Witness ==
  /\ pc = "rejected"
  /\ error = "TypeError"
  /\ NFetched = 2
  /\ now > fetches[2].at + interval

\* ------------------------------------------------------------ pool claims
\* The positions, in order of completion, of the tasks that failed.
FailedPositions == {k \in 1..Len(completed) : produced[completed[k]] = "failed"}

\* C7: when all n tasks succeed the pool resolves with n results, result[i]
\* being what task i resolved with, whatever the order of completion.
C7_ResultsInSubmissionOrder ==
  /\ poolState = "resolved" =>
       /\ Len(poolResult) = total
       /\ \A i \in 1..total : produced[i] \in Values /\ poolResult[i] = produced[i]
  /\ (/\ poolState # "idle"
      /\ poolError # BuildIdError
      /\ Len(completed) = total
      /\ FailedPositions = {}) => poolState = "resolved"

C7_Witness ==
  /\ poolState = "resolved"
  /\ total = 3
  /\ completed = <<2, 1, 3>>
  /\ poolResult = <<"a", "b", "b">>

\* C8: the tasks pulled and not yet settled are never more than the
\* concurrency limit, never more than 2 for uploadResources, and a running
\* pool pulls one further task only in a step in which a task completes.
C8_AtMostNInFlight ==
  /\ [](Cardinality(active) <= concurrency)
  /\ [](caller = "uploadResources" => Cardinality(active) <= 2)
  /\ [][(poolState = "running" /\ pulled' > pulled) =>
          /\ pulled' = pulled + 1
          /\ \E i \in active : i \notin active']_vars

C8_Witness ==
  /\ caller = "uploadResources"
  /\ total = 3
  /\ pulled = 3
  /\ Cardinality(active) = 2
  /\ Len(completed) = 1

\* C9: when a task fails the pool call is rejected with the error of the
\* task that failed first, and it resolves with no result list.
C9_RejectsWithFirstFailure ==
  FailedPositions # {} =>
    LET first == CHOOSE k \in FailedPositions : \A h \in FailedPositions : k <= h
    IN /\ poolState = "rejected"
       /\ poolError = TaskError(completed[first])
       /\ poolResult = << >>

C9_Witness ==
  /\ Cardinality(FailedPositions) = 2
  /\ completed = <<2, 1>>
  /\ poolError = TaskError(2)

====
